---- MODULE Spec2Model ----
(***************************************************************************)
(* Business-day arithmetic of excel_date_functions.py: networkdays,        *)
(* workday and work_dates over the ANBIMA holiday calendar.                *)
(*                                                                         *)
(* A date is a numpy datetime64[D] value: the number of days since         *)
(* 1970-01-01.  The three public functions are modelled as operators that  *)
(* return [status, value]; one action per function applies the operator to *)
(* inputs drawn from bounded sets and records the call and what it         *)
(* returned.                                                               *)
(***************************************************************************)
EXTENDS Integers, Sequences, FiniteSets

VARIABLES
    fer_anbima,       \* the cached holiday file fer_anbima.parquet: a set of dates
    pc,               \* "idle" (nothing called yet) or "returned"
    fn,               \* the function that was called
    data_inicial,     \* argument data_inicial, as passed
    data_final,       \* argument data_final, as passed
    dias_uteis,       \* argument dias_uteis of workday
    rolagem,          \* argument rolagem (a string, or None)
    status,           \* "ok", or the exception the call raised
    out,              \* the value the call returned
    di_df,            \* work_dates: the pairs zip(data_inicial, data_final) of line 133
    matriz_resposta   \* work_dates: the list of per-pair arrays before line 140

vars == <<fer_anbima, pc, fn, data_inicial, data_final, dias_uteis, rolagem,
          status, out, di_df, matriz_resposta>>

---------------------------------------------------------------------------
(* Bounds of the model *)

\* number of consecutive days callers draw single dates from
NumDays == 8
\* longest date collection passed to a call
MaxLen == 3
\* largest |dias_uteis| passed to workday
MaxOffset == 2

---------------------------------------------------------------------------
(* datetime64[D] values *)

\* numpy's NaT ("not a time"): the smallest integer of the representation
NaT == -2147483647

\* astype('datetime64[D]') of the date y-m-d: days since 1970-01-01
DaysFromCivil(y, m, d) ==
    LET yy  == IF m <= 2 THEN y - 1 ELSE y
        era == yy \div 400
        yoe == yy - era * 400
        mp  == IF m > 2 THEN m - 3 ELSE m + 9
        doy == (153 * mp + 2) \div 5 + d - 1
        doe == yoe * 365 + yoe \div 4 - yoe \div 100 + doy
    IN  era * 146097 + doe - 719468

\* the calendar month (1..12) of a datetime64[D] value
MonthOf(date) ==
    LET z   == date + 719468
        era == z \div 146097
        doe == z - era * 146097
        yoe == (doe - doe \div 1460 + doe \div 36524 - doe \div 146096) \div 365
        doy == doe - (365 * yoe + yoe \div 4 - yoe \div 100)
        mp  == (5 * doy + 2) \div 153
    IN  IF mp < 10 THEN mp + 3 ELSE mp - 9

\* 0 = Monday .. 6 = Sunday (1970-01-01 was a Thursday)
DayOfWeek(date) == (date - 4) % 7

\* a weekmask that takes Saturday for a valid day
Weekmask_WithSaturday(dow) == dow < 6

\* numpy's default weekmask 'Mon Tue Wed Thu Fri'
Weekmask(dow) == dow < 5

---------------------------------------------------------------------------
(* Python strings, as far as the roll tokens need them: a word in lower    *)
(* case and the letter case it is written in.                              *)

Str(word) == [word |-> word, caps |-> "lower"]
Upper(word) == [word |-> word, caps |-> "upper"]

\* str.lower()
Lower(s) == [s EXCEPT !.caps = "lower"]

\* Python's None, distinct from every string
None == [word |-> "None", caps |-> "none"]

---------------------------------------------------------------------------
(* Sequences *)

Max(a, b) == IF a >= b THEN a ELSE b

\* numpy.repeat(a, n): every element of a, n times over
Repeat(a, n) == [i \in 1..(Len(a) * n) |-> a[((i - 1) \div n) + 1]]

RECURSIVE Concat(_)
\* the concatenation of a sequence of sequences
Concat(rows) == IF rows = <<>> THEN <<>> ELSE Head(rows) \o Concat(Tail(rows))

---------------------------------------------------------------------------
(* numpy's business-day routines, as the three functions call them *)

Ok(v) == [status |-> "ok", value |-> v]
ValueError == [status |-> "ValueError", value |-> <<>>]

\* the holidays as a busdaycalendar keeps them: NaT and the days outside the
\* weekmask are dropped, duplicates removed
NormalizeHolidays(holidays) ==
    {h \in holidays : h # NaT /\ Weekmask(DayOfWeek(h))}

IsBusday(date, holidays) ==
    Weekmask(DayOfWeek(date)) /\ date \notin NormalizeHolidays(holidays)

RECURSIVE Following(_, _)
\* the first valid day on or after date
Following(date, holidays) ==
    IF IsBusday(date, holidays) THEN date ELSE Following(date + 1, holidays)

RECURSIVE Preceding(_, _)
\* the last valid day on or before date
Preceding(date, holidays) ==
    IF IsBusday(date, holidays) THEN date ELSE Preceding(date - 1, holidays)

\* the roll= argument of numpy, parsed: exact, case-sensitive names
RollConverter(roll) ==
    CASE roll = Str("backward")          -> "preceding"
      [] roll = Str("forward")           -> "following"
      [] roll = Str("following")         -> "following"
      [] roll = Str("preceding")         -> "preceding"
      [] roll = Str("modifiedfollowing") -> "modifiedfollowing"
      [] roll = Str("modifiedpreceding") -> "modifiedpreceding"
      [] roll = Str("nat")               -> "nat"
      [] roll = Str("raise")             -> "raise"
      [] OTHER                           -> "invalid"

\* the roll of one date: [err, date]
ApplyRoll(date, roll, holidays) ==
    IF date = NaT THEN [err |-> roll = "raise", date |-> NaT]
    ELSE IF IsBusday(date, holidays) THEN [err |-> FALSE, date |-> date]
    ELSE CASE roll = "following" ->
                [err |-> FALSE, date |-> Following(date, holidays)]
           [] roll = "preceding" ->
                [err |-> FALSE, date |-> Preceding(date, holidays)]
           [] roll = "modifiedfollowing" ->
                LET f == Following(date, holidays)
                IN  [err |-> FALSE,
                     date |-> IF MonthOf(f) # MonthOf(date)
                              THEN Preceding(date, holidays) ELSE f]
           [] roll = "modifiedpreceding" ->
                LET p == Preceding(date, holidays)
                IN  [err |-> FALSE,
                     date |-> IF MonthOf(p) # MonthOf(date)
                              THEN Following(date, holidays) ELSE p]
           [] roll = "nat" -> [err |-> FALSE, date |-> NaT]
           [] OTHER -> [err |-> TRUE, date |-> NaT]

RECURSIVE StepBusdays(_, _, _)
\* |offset| valid days away from the valid day date, in the offset's direction
StepBusdays(date, offset, holidays) ==
    IF offset = 0 THEN date
    ELSE IF offset > 0
         THEN StepBusdays(Following(date + 1, holidays), offset - 1, holidays)
         ELSE StepBusdays(Preceding(date - 1, holidays), offset + 1, holidays)

\* numpy.busday_offset(dates, offset, roll = roll, holidays = holidays)
busday_offset(dates, offset, roll, holidays) ==
    LET code == RollConverter(roll)
        one(date) ==
            LET r == ApplyRoll(date, code, holidays)
            IN  IF r.err \/ r.date = NaT THEN r
                ELSE [err |-> FALSE, date |-> StepBusdays(r.date, offset, holidays)]
    IN  IF code = "invalid" THEN ValueError
        ELSE IF \E i \in 1..Len(dates) : one(dates[i]).err THEN ValueError
        ELSE Ok([i \in 1..Len(dates) |-> one(dates[i]).date])

\* the valid days d with first <= d < last
CountRange(first, last, holidays) ==
    Cardinality({d \in first..(last - 1) : Weekmask(DayOfWeek(d))})
    - Cardinality({h \in NormalizeHolidays(holidays) : first <= h /\ h < last})

\* one element of numpy.busday_count: the valid days of [begin, end); with
\* end before begin, minus the valid days of (end, begin] (the end date is
\* the one left out in both directions, as numpy documents since 1.25)
BusdayCountOne(begin, end, holidays) ==
    IF begin = end THEN 0
    ELSE IF begin > end THEN -CountRange(end + 1, begin + 1, holidays)
    ELSE CountRange(begin, end, holidays)

\* numpy.busday_count(begindates, enddates, holidays = holidays)
busday_count(begindates, enddates, holidays) ==
    IF \E i \in 1..Len(begindates) : begindates[i] = NaT \/ enddates[i] = NaT
    THEN ValueError
    ELSE Ok([i \in 1..Len(begindates) |->
                BusdayCountOne(begindates[i], enddates[i], holidays)])

---------------------------------------------------------------------------
(* excel_date_functions.py *)

\* feriados(): the cached file, as an array of datetime64[D]
feriados == fer_anbima

\* the alignment without the repeat rule: unequal lengths are an error
BroadcastDates_NoRepeat(a, b) ==
    [err |-> Len(a) # Len(b), a |-> a, b |-> b]

\* the repeat rule both networkdays and work_dates start with: [err, a, b]
BroadcastDates(a, b) ==
    IF Len(a) # Len(b)
    THEN IF Len(a) = 1
         THEN [err |-> FALSE, a |-> Repeat(a, Len(b)), b |-> b]
         ELSE IF Len(b) = 1
         THEN [err |-> FALSE, a |-> a, b |-> Repeat(b, Len(a))]
         ELSE IF Len(a) > 1 /\ Len(b) > 1
         THEN [err |-> TRUE, a |-> a, b |-> b]
         ELSE [err |-> FALSE, a |-> a, b |-> b]
    ELSE [err |-> FALSE, a |-> a, b |-> b]

networkdays(inicial, final) ==
    LET bc == BroadcastDates(inicial, final)
    IN  IF bc.err THEN ValueError
        ELSE busday_count(bc.a, bc.b, feriados)

workday(inicial, dias, rol) ==
    LET r1 == IF Lower(rol) = Str("posterior") THEN Str("forward") ELSE rol
        r2 == IF Lower(r1) = Str("anterior") THEN Str("backward") ELSE r1
    IN  busday_offset(inicial, dias, r2, feriados)

\* an element of an array of dtype object: a date, or an array of dates
DateElem(d) == [isArray |-> FALSE, date |-> d, items |-> <<>>]
ArrayElem(r) == [isArray |-> TRUE, date |-> NaT, items |-> r]

\* numpy.array(rows, dtype = 'object').flatten(): rows of one length make a
\* two-dimensional array, which flatten() turns into its dates; rows of
\* different lengths make a one-dimensional array of arrays, which
\* flatten() leaves as it is
ObjectArrayFlatten(rows) ==
    IF \A i, j \in 1..Len(rows) : Len(rows[i]) = Len(rows[j])
    THEN LET flat == Concat(rows)
         IN  [k \in 1..Len(flat) |-> DateElem(flat[k])]
    ELSE [i \in 1..Len(rows) |-> ArrayElem(rows[i])]

\* the dates of one pair (line 135): workday(di, i) for i in range(n + 1),
\* n the count networkdays(di, df)
DatasOf(di, df) ==
    LET n == networkdays(<<di>>, <<df>>).value[1]
    IN  [k \in 1..Max(0, n + 1) |->
            workday(<<di>>, k - 1, Str("posterior")).value[1]]

\* [status, value, pairs, rows]
work_dates(inicial, final, rol) ==
    LET failed == [status |-> "ValueError", value |-> <<>>,
                   pairs |-> <<>>, rows |-> <<>>]
        r1 == IF rol = Str("posterior") THEN Str("forward") ELSE rol
        r2 == IF r1 = Str("anterior") THEN Str("backward") ELSE r1
        bc == BroadcastDates(inicial, final)
        ri == IF r2 # None THEN busday_offset(bc.a, 0, r2, {}) ELSE Ok(bc.a)
        rf == IF r2 # None THEN busday_offset(bc.b, 0, r2, {}) ELSE Ok(bc.b)
        pairs == [i \in 1..Len(ri.value) |-> <<ri.value[i], rf.value[i]>>]
        rows == [i \in 1..Len(pairs) |-> DatasOf(pairs[i][1], pairs[i][2])]
    IN  IF bc.err THEN failed
        ELSE IF ri.status # "ok" \/ rf.status # "ok" THEN failed
        ELSE IF \E i \in 1..Len(pairs) : pairs[i][1] = NaT \/ pairs[i][2] = NaT
        THEN failed
        ELSE [status |-> "ok", value |-> ObjectArrayFlatten(rows),
              pairs |-> pairs, rows |-> rows]

---------------------------------------------------------------------------
(* What callers pass *)

FirstDay == DaysFromCivil(2023, 12, 29)

\* single dates: Friday 2023-12-29 onwards
Dates == FirstDay..(FirstDay + NumDays - 1)

\* the dates of the longer collections
SeriesDates == {DaysFromCivil(2024, 1, 1), DaysFromCivil(2024, 1, 3)}

DateSeqs ==
    {<<d>> : d \in Dates} \cup UNION {[1..n -> SeriesDates] : n \in 2..MaxLen}

\* the holiday files: a Saturday, and the Monday and the Tuesday after it, may
\* be holidays
HolidayPool == {DaysFromCivil(2023, 12, 30), DaysFromCivil(2024, 1, 1),
                DaysFromCivil(2024, 1, 2)}

Words == {"forward", "backward", "posterior", "anterior", "following",
          "preceding", "modifiedfollowing", "modifiedpreceding", "nat",
          "raise", "proximo"}

RollTokens == {Str(w) : w \in Words} \cup {Upper(w) : w \in Words}

Offsets == (-MaxOffset)..MaxOffset

---------------------------------------------------------------------------
(* The state machine *)

Init ==
    /\ fer_anbima \in SUBSET HolidayPool
    /\ pc = "idle"
    /\ fn = "none"
    /\ data_inicial = <<>>
    /\ data_final = <<>>
    /\ dias_uteis = 0
    /\ rolagem = None
    /\ status = "ok"
    /\ out = <<>>
    /\ di_df = <<>>
    /\ matriz_resposta = <<>>

Networkdays ==
    /\ pc = "idle"
    /\ \E a \in DateSeqs, b \in DateSeqs :
        \E r \in {networkdays(a, b)} :
            /\ data_inicial' = a
            /\ data_final' = b
            /\ status' = r.status
            /\ out' = r.value
    /\ fn' = "networkdays"
    /\ pc' = "returned"
    /\ UNCHANGED <<fer_anbima, dias_uteis, rolagem, di_df, matriz_resposta>>

Workday ==
    /\ pc = "idle"
    /\ \E a \in DateSeqs, n \in Offsets, rol \in RollTokens :
        \E r \in {workday(a, n, rol)} :
            /\ data_inicial' = a
            /\ dias_uteis' = n
            /\ rolagem' = rol
            /\ status' = r.status
            /\ out' = r.value
    /\ fn' = "workday"
    /\ pc' = "returned"
    /\ UNCHANGED <<fer_anbima, data_final, di_df, matriz_resposta>>

WorkDates ==
    /\ pc = "idle"
    /\ \E a \in DateSeqs, b \in DateSeqs, rol \in RollTokens \cup {None} :
        \E r \in {work_dates(a, b, rol)} :
            /\ data_inicial' = a
            /\ data_final' = b
            /\ rolagem' = rol
            /\ status' = r.status
            /\ out' = r.value
            /\ di_df' = r.pairs
            /\ matriz_resposta' = r.rows
    /\ fn' = "work_dates"
    /\ pc' = "returned"
    /\ UNCHANGED <<fer_anbima, dias_uteis>>

Next == Networkdays \/ Workday \/ WorkDates

Spec == Init /\ [][Next]_vars

---------------------------------------------------------------------------
(* What the specification says, in its own terms *)

Called(f) == pc = "returned" /\ fn = f

IsWeekend(d) == DayOfWeek(d) = 5 \/ DayOfWeek(d) = 6

\* a business day: not a weekend day and not in the holiday set
IsBusinessDay(d) == ~IsWeekend(d) /\ d \notin fer_anbima

\* the business days d with s <= d <= e
BusinessDays(s, e) == {d \in s..e : IsBusinessDay(d)}

RECURSIVE Ascending(_)
\* the dates of a finite set, earliest first
Ascending(S) ==
    IF S = {} THEN <<>>
    ELSE LET m == CHOOSE x \in S : \A y \in S : x <= y
         IN  <<m>> \o Ascending(S \ {m})

\* the sequence q, last element first
Reverse(q) == [i \in 1..Len(q) |-> q[Len(q) + 1 - i]]

\* the i-th aligned pair of the call's two collections: the side of length 1
\* is repeated
PairAt(i) ==
    << IF Len(data_inicial) = 1 THEN data_inicial[1] ELSE data_inicial[i],
       IF Len(data_final) = 1 THEN data_final[1] ELSE data_final[i] >>

\* networkdays and workday of single dates
Networkdays1(s, e) == networkdays(<<s>>, <<e>>).value[1]
Workday1(d, n, rol) == workday(<<d>>, n, rol).value[1]

\* the roll tokens the specification accepts, and the direction of each
IsForwardToken(rol) == Lower(rol).word \in {"forward", "posterior"}
IsBackwardToken(rol) == Lower(rol).word \in {"backward", "anterior"}
IsAcceptedToken(rol) == IsForwardToken(rol) \/ IsBackwardToken(rol)
Direction(rol) == IF IsForwardToken(rol) THEN Str("forward") ELSE Str("backward")

---------------------------------------------------------------------------
(* The claims *)

\* C1: networkdays counts inclusively of both endpoints: for start <= end
\* it is the number of business days d with start <= d <= end, so
\* networkdays(d, d) = 1 for a business day d.
C1_InclusiveCount ==
    Called("networkdays") /\ status = "ok" =>
        \A i \in 1..Len(out) :
            PairAt(i)[1] <= PairAt(i)[2] =>
                out[i] = Cardinality(BusinessDays(PairAt(i)[1], PairAt(i)[2]))

\* C2: for a business day d and n >= 0,
\* networkdays(d, workday(d, n, forward)) = n + 1.
C2_RoundTrip ==
    Called("workday") /\ status = "ok" /\ IsForwardToken(rolagem)
                      /\ dias_uteis >= 0 =>
        \A i \in 1..Len(out) :
            IsBusinessDay(data_inicial[i]) =>
                Networkdays1(data_inicial[i], out[i]) = dias_uteis + 1

\* C3: for end < start, networkdays(start, end) = -networkdays(end, start).
C3_Antisymmetric ==
    Called("networkdays") /\ status = "ok" =>
        \A i \in 1..Len(out) :
            PairAt(i)[2] < PairAt(i)[1] =>
                out[i] = -Networkdays1(PairAt(i)[2], PairAt(i)[1])

\* C4: for one pair with start <= end and no roll policy, work_dates returns
\* exactly the business days of [start, end], ascending, each once.
C4_ExactRange ==
    Called("work_dates") /\ rolagem = None
        /\ Len(data_inicial) = 1 /\ Len(data_final) = 1
        /\ data_inicial[1] <= data_final[1] =>
            /\ status = "ok"
            /\ out = LET days == Ascending(BusinessDays(data_inicial[1],
                                                        data_final[1]))
                     IN  [k \in 1..Len(days) |-> DateElem(days[k])]

\* C5: networkdays of collections of equal length, or of one date against
\* n dates, has one count per aligned pair, the count of that pair alone,
\* the length-1 side being repeated.
C5_Broadcast ==
    Called("networkdays")
        /\ (\/ Len(data_inicial) = Len(data_final)
            \/ Len(data_inicial) = 1
            \/ Len(data_final) = 1) =>
            /\ status = "ok"
            /\ Len(out) = Max(Len(data_inicial), Len(data_final))
            /\ \A i \in 1..Len(out) :
                    out[i] = Networkdays1(PairAt(i)[1], PairAt(i)[2])

\* C5, its case: one start date against three end dates with different counts
C5_Witness ==
    /\ Called("networkdays")
    /\ Len(data_inicial) = 1
    /\ Len(data_final) = 3
    /\ status = "ok"
    /\ out[1] # out[2]

\* C6: workday, and work_dates when a roll is given, accept exactly forward,
\* backward, posterior and anterior, in any letter case, each producing its
\* roll; every other token fails.
C6_RollTokens ==
    /\ Called("workday") =>
            IF IsAcceptedToken(rolagem)
            THEN /\ status = "ok"
                 /\ out = workday(data_inicial, dias_uteis,
                                  Direction(rolagem)).value
            ELSE status # "ok"
    /\ Called("work_dates") /\ rolagem # None
            /\ (\/ Len(data_inicial) = Len(data_final)
                \/ Len(data_inicial) = 1
                \/ Len(data_final) = 1) =>
            IF IsAcceptedToken(rolagem)
            THEN /\ status = "ok"
                 /\ out = work_dates(data_inicial, data_final,
                                     Direction(rolagem)).value
            ELSE status # "ok"

\* C7: no date returned by workday with a forward or backward roll, and no
\* date in the output of work_dates, is a Saturday or a Sunday.
C7_NoWeekend ==
    /\ Called("workday") /\ status = "ok" /\ IsAcceptedToken(rolagem) =>
            \A i \in 1..Len(out) : ~IsWeekend(out[i])
    /\ Called("work_dates") /\ status = "ok" =>
            \A i \in 1..Len(out) :
                IF out[i].isArray
                THEN \A k \in 1..Len(out[i].items) : ~IsWeekend(out[i].items[k])
                ELSE ~IsWeekend(out[i].date)

\* C7, its case: work_dates from a weekend day, a weekend day being a
\* holiday too, returns dates
C7_Witness ==
    /\ Called("work_dates")
    /\ status = "ok"
    /\ IsWeekend(data_inicial[1])
    /\ \E h \in fer_anbima : IsWeekend(h)
    /\ out # <<>>

\* C8: with a roll policy p, work_dates snaps start and end as
\* workday(x, 0, p) does and the dates of a pair run from workday(start, 0, p)
\* to workday(end, 0, p).
C8_RollSnap ==
    Called("work_dates") /\ status = "ok" /\ rolagem # None
                         /\ IsAcceptedToken(rolagem) =>
        \A i \in 1..Len(matriz_resposta) :
            LET s == Workday1(PairAt(i)[1], 0, Direction(rolagem))
                e == Workday1(PairAt(i)[2], 0, Direction(rolagem))
                row == matriz_resposta[i]
            IN  /\ di_df[i] = <<s, e>>
                /\ s <= e => row # <<>> /\ row[1] = s /\ row[Len(row)] = e

\* C9: the result of work_dates is one flat sequence of dates, the
\* concatenation of the per-pair sequences in pair order.
C9_Flat ==
    Called("work_dates") /\ status = "ok" =>
        /\ \A i \in 1..Len(out) : ~out[i].isArray
        /\ Len(out) = Len(Concat(matriz_resposta))
        /\ \A i \in 1..Len(out) : out[i].date = Concat(matriz_resposta)[i]

\* C10: for a pair with end < start the count is negative and the pair's
\* dates are none, or the business days from start down to end; no date
\* later than start is emitted.
C10_Reverse ==
    Called("work_dates") /\ status = "ok" =>
        \A i \in 1..Len(di_df) :
            LET s == di_df[i][1]
                e == di_df[i][2]
                row == matriz_resposta[i]
            IN  e < s =>
                    /\ Networkdays1(s, e) < 0
                    /\ \/ row = <<>>
                       \/ row = Reverse(Ascending(BusinessDays(e, s)))
                    /\ \A k \in 1..Len(row) : row[k] <= s

====
